---- MODULE Spec2Model ----
(***************************************************************************)
(* CEDARS adjudication coordination: patient locks, the annotation         *)
(* sequencer, the per-session review state machine, event-date handling    *)
(* and the NLP job dispatcher, modelled from cedars/app/ops.py, db.py and  *)
(* api.py.                                                                 *)
(***************************************************************************)
EXTENDS Integers, Sequences, FiniteSets, TLC

(* ---------------------------------------------------------------------- *)
(* Bounds                                                                  *)
(* ---------------------------------------------------------------------- *)
\* largest calendar day a reviewer may enter as an event date
MaxDate == 2
\* comments stored before reviewers stop commenting
MaxComments == 2
\* requests served in the specification with several reviewers
MaxRequests == 5
\* number of query uploads / dispatches issued
MaxDispatch == 1
\* number of queue workers
NumWorkers == 2
\* number of further dispatches requested after the first ones
MaxRedispatch == 1

\* the reviewers; Reviewer works alone in the single-session specification
Users == {1, 2}
Reviewer == 1
Workers == 1..NumWorkers
Dates == 1..MaxDate

\* Python's None, and a session key that is not present at all
NoneV == 0
Absent == -1

(* ---------------------------------------------------------------------- *)
(* The stored corpus: patients, notes and the annotations the NLP pipeline *)
(* produced.  Only reviewed / event_date / skip change after ingestion.    *)
(* ---------------------------------------------------------------------- *)
Patients == {1, 2, 3}

\* the immutable fields of an ANNOTATIONS document (db.populate_annotations)
Ann(p, n, d, k, s, st, neg) ==
  [patient_id |-> p, note_id |-> n, text_date |-> d, sentence_number |-> k,
   sentence |-> s, sentence_start |-> st, isNegated |-> neg]

\* the corpora a project is started on.  Ids are insertion order, which is
\* not the review order.
\*  1: one patient, three notes on days 2, 1, 3; the third sentence repeats
\*     the second up to case and blanks
\*  2: three patients; patient 1 has the same sentence twice in one note,
\*     patient 2 has one match, patient 3 has only a negated match
Corpora ==
  << << Ann(1, 2, 2, 0, "s2", 0, FALSE),
        Ann(1, 1, 1, 0, "s1", 0, FALSE),
        Ann(1, 3, 3, 0, " S1", 4, FALSE) >>,
     << Ann(2, 5, 2, 1, "s4", 7, FALSE),
        Ann(1, 4, 1, 0, "s3", 0, FALSE),
        Ann(1, 4, 1, 0, "s3", 0, FALSE),
        Ann(3, 7, 1, 0, "s6", 0, TRUE) >> >>

VARIABLES
  corpus,     \* which of the corpora was ingested
  ann,        \* ANNOTATIONS: id -> [reviewed, event_date, skip]
  pat,        \* PATIENTS: id -> [reviewed, locked, reviewed_by, comments]
  query,      \* current QUERY document: hide_duplicates, skip_after_event
  sess,       \* flask session of each user
  req,        \* adjudicate_records request in flight of each user
  quota,      \* requests and comments the reviewers have still to make
  tasks,      \* in-flight task record of each patient's job
  queue,      \* rq task queue: job ids waiting for a worker
  retries,    \* job id -> retries left (rq Retry)
  toEnqueue,  \* patients do_nlp_processing has still to enqueue
  wk,         \* each worker's position in job execution / callback
  pines,      \* PINES server: running flag and number of close requests
  dispatched, \* number of dispatches issued so far
  runs        \* executions of each patient's job started so far

storeVars == <<corpus, ann, pat, query>>

AnnData == Corpora[corpus]
AnnIds == 1..Len(AnnData)
sessVars == <<sess, req>>

jobVars == <<tasks, queue, retries, toEnqueue, wk, pines, dispatched, runs>>
vars == <<corpus, ann, pat, query, sess, req, quota,
          tasks, queue, retries, toEnqueue, wk, pines, dispatched, runs>>

(* ---------------------------------------------------------------------- *)
(* db.py: reads                                                            *)
(* ---------------------------------------------------------------------- *)
\* str.lower().strip() on the sentences of the corpus
lower_strip(s) ==
  CASE s = " S1" -> "s1"
    [] OTHER     -> s

\* a variant that stores the text as it was entered
strip_unstripped(s) == s

\* str.strip() on the comment texts reviewers enter
strip(s) ==
  CASE s = " "  -> ""
    [] s = " c" -> "c"
    [] OTHER    -> s

\* a variant of the sort that leaves the documents in insertion order
sort_before_inserted(i, j) == i < j

\* the sort key [("note_id", 1), ("text_date", 1), ("sentence_number", 1)];
\* documents with equal keys keep their insertion (id) order
sort_before(i, j) ==
  LET x == AnnData[i]
      y == AnnData[j]
  IN  \/ x.note_id < y.note_id
      \/ x.note_id = y.note_id /\ x.text_date < y.text_date
      \/ x.note_id = y.note_id /\ x.text_date = y.text_date
           /\ x.sentence_number < y.sentence_number
      \/ x.note_id = y.note_id /\ x.text_date = y.text_date
           /\ x.sentence_number = y.sentence_number /\ i < j

RECURSIVE sorted(_)
sorted(S) ==
  IF S = {} THEN << >>
  ELSE LET m == CHOOSE i \in S : \A j \in S \ {i} : sort_before(i, j)
       IN  <<m>> \o sorted(S \ {m})

get_patient_annotation_ids(a, p_id) ==
  sorted({i \in AnnIds : /\ AnnData[i].patient_id = p_id
                         /\ a[i].reviewed = FALSE
                         /\ AnnData[i].isNegated = FALSE})

get_all_annotations_for_patient(p_id) ==
  sorted({i \in AnnIds : /\ AnnData[i].patient_id = p_id
                         /\ AnnData[i].isNegated = FALSE})

dated(a, p_id) ==
  {i \in AnnIds : AnnData[i].patient_id = p_id /\ a[i].event_date # NoneV}

\* find(event_date != None).sort(event_date)[0]["event_date"]
get_event_date(a, p_id) ==
  IF dated(a, p_id) = {} THEN NoneV
  ELSE LET m == CHOOSE i \in dated(a, p_id) :
                  \A j \in dated(a, p_id) : a[i].event_date <= a[j].event_date
       IN  a[m].event_date

\* the anchor: the annotation whose date get_event_date reports
get_event_annotation_id(a, p_id) ==
  IF dated(a, p_id) = {} THEN NoneV
  ELSE CHOOSE i \in dated(a, p_id) :
         \A j \in dated(a, p_id) :
            \/ a[i].event_date < a[j].event_date
            \/ a[i].event_date = a[j].event_date /\ i <= j

get_patient_lock_status(pt, patient_id) == pt[patient_id].locked

\* a variant that takes the first patient without looking for annotations
first_to_annotate_any(a, pt, ps) == IF ps = << >> THEN NoneV ELSE Head(ps)

RECURSIVE first_to_annotate(_, _, _)
first_to_annotate(a, pt, ps) ==
  IF ps = << >> THEN NoneV
  ELSE IF Len(get_patient_annotation_ids(a, Head(ps))) > 0 THEN Head(ps)
  ELSE first_to_annotate(a, pt, Tail(ps))

RECURSIVE ascending(_)
ascending(S) ==
  IF S = {} THEN << >>
  ELSE LET m == CHOOSE i \in S : \A j \in S : i <= j
       IN  <<m>> \o ascending(S \ {m})

\* find({"reviewed": False}), then the first patient with an un-reviewed,
\* non-negated annotation
get_patients_to_annotate(a, pt) ==
  first_to_annotate(a, pt, ascending({p \in Patients : pt[p].reviewed = FALSE}))

get_patient_ids == ascending(Patients)

(* ---------------------------------------------------------------------- *)
(* db.py: updates.  update_one on a patient id that matches no document    *)
(* (None) changes nothing.                                                 *)
(* ---------------------------------------------------------------------- *)
mark_annotation_reviewed(a, annotation_id) ==
  [a EXCEPT ![annotation_id].reviewed = TRUE]

update_annotation_date(a, annotation_id, new_date) ==
  [a EXCEPT ![annotation_id].event_date = new_date]

delete_annotation_date(a, annotation_id) ==
  [a EXCEPT ![annotation_id].event_date = NoneV]

mark_patient_reviewed(pt, patient_id, reviewed_by) ==
  IF patient_id \in Patients
  THEN [pt EXCEPT ![patient_id].reviewed = TRUE,
                  ![patient_id].reviewed_by = reviewed_by]
  ELSE pt

set_patient_lock_status(pt, patient_id, status) ==
  IF patient_id \in Patients
  THEN [pt EXCEPT ![patient_id].locked = status]
  ELSE pt

remove_all_locked_resetting(pt) ==
  [p \in Patients |-> [pt[p] EXCEPT !.locked = FALSE, !.reviewed = FALSE]]

remove_all_locked(pt) == [p \in Patients |-> [pt[p] EXCEPT !.locked = FALSE]]

\* Event Propagation Rule on set: the date goes on the annotation and, with
\* skip_after_event, every annotation of the patient in a note dated
\* strictly after it is marked skip.  A date an earlier request put on
\* another annotation of the patient is left in place.
update_event_date(a, q, patient_id, new_date, annotation_id) ==
  LET a1 == update_annotation_date(a, annotation_id, new_date)
  IN  IF q.skip_after_event
      THEN [i \in AnnIds |->
              IF AnnData[i].patient_id = patient_id
                 /\ AnnData[i].text_date > new_date
              THEN [a1[i] EXCEPT !.skip = TRUE]
              ELSE a1[i]]
      ELSE a1

\* Event Propagation Rule on clear: the anchor loses its date and is
\* un-reviewed again, skipped annotations are reinstated
delete_event_date(a, q, patient_id) ==
  LET anchor == get_event_annotation_id(a, patient_id)
  IN  IF anchor = NoneV THEN a
      ELSE LET a1 == delete_annotation_date(a, anchor)
               a2 == [a1 EXCEPT ![anchor].reviewed = FALSE]
           IN  IF q.skip_after_event
               THEN [i \in AnnIds |->
                       IF AnnData[i].patient_id = patient_id /\ a2[i].skip
                       THEN [a2[i] EXCEPT !.skip = FALSE]
                       ELSE a2[i]]
               ELSE a2

\* comments are kept per patient; an empty comment is not stored
add_comment(pt, annotation_id, comment) ==
  IF comment = "" THEN pt
  ELSE LET p == AnnData[annotation_id].patient_id
       IN  [pt EXCEPT ![p].comments = Append(@, comment)]


(* ---------------------------------------------------------------------- *)
(* ops.py: the annotation sequencer and the cursor scan                    *)
(* ---------------------------------------------------------------------- *)
\* a variant of the hide_duplicates loop that compares the sentences as
\* stored, without lower() and strip()
RECURSIVE duplicate_sentences_exact(_, _)
duplicate_sentences_exact(annotations, seen_sentences) ==
  IF annotations = << >> THEN {}
  ELSE LET sentence == AnnData[Head(annotations)].sentence
       IN  IF sentence \in seen_sentences
           THEN {Head(annotations)}
                  \cup duplicate_sentences_exact(Tail(annotations),
                                                 seen_sentences)
           ELSE duplicate_sentences_exact(Tail(annotations),
                                          seen_sentences \cup {sentence})

\* indices_to_remove with hide_duplicates: a sentence already seen anywhere
\* in the patient's annotations
RECURSIVE duplicate_sentences(_, _)
duplicate_sentences(annotations, seen_sentences) ==
  IF annotations = << >> THEN {}
  ELSE LET sentence == lower_strip(AnnData[Head(annotations)].sentence)
       IN  IF sentence \in seen_sentences
           THEN {Head(annotations)}
                  \cup duplicate_sentences(Tail(annotations), seen_sentences)
           ELSE duplicate_sentences(Tail(annotations),
                                    seen_sentences \cup {sentence})

\* a variant of the loop without hide_duplicates that never clears the set
RECURSIVE duplicate_starts_all_notes(_, _, _)
duplicate_starts_all_notes(annotations, prev_note_id, seen_sentence_indices) ==
  IF annotations = << >> THEN {}
  ELSE LET x == AnnData[Head(annotations)]
       IN  IF x.sentence_start \in seen_sentence_indices
           THEN {Head(annotations)}
                  \cup duplicate_starts_all_notes(Tail(annotations), x.note_id,
                                                  seen_sentence_indices)
           ELSE duplicate_starts_all_notes(
                  Tail(annotations), x.note_id,
                  seen_sentence_indices \cup {x.sentence_start})

\* indices_to_remove without hide_duplicates: a sentence start already seen
\* in the same note; the set is cleared when the note id changes
RECURSIVE duplicate_starts(_, _, _)
duplicate_starts(annotations, prev_note_id, seen_sentence_indices) ==
  IF annotations = << >> THEN {}
  ELSE LET x == AnnData[Head(annotations)]
           seen == IF x.note_id # prev_note_id THEN {}
                   ELSE seen_sentence_indices
       IN  IF x.sentence_start \in seen
           THEN {Head(annotations)}
                  \cup duplicate_starts(Tail(annotations), x.note_id, seen)
           ELSE duplicate_starts(Tail(annotations), x.note_id,
                                 seen \cup {x.sentence_start})

\* a variant that looks for duplicates among the un-reviewed annotations only
format_annotations_unreviewed(a, annotations, hide_duplicates) ==
  LET fresh == SelectSeq(annotations, LAMBDA i : ~a[i].reviewed)
      removed == IF hide_duplicates
                 THEN duplicate_sentences(fresh, {})
                 ELSE duplicate_starts(fresh, NoneV, {})
      kept == SelectSeq(annotations, LAMBDA i : i \notin removed)
  IN  [annotations |-> kept,
       unreviewed_annotations_index |->
          [k \in 1..Len(kept) |-> IF a[kept[k]].reviewed THEN 0 ELSE 1],
       total |-> Len(kept),
       removed |-> removed]

\* the result dictionary, with the ids it marked reviewed and popped
format_annotations(a, annotations, hide_duplicates) ==
  LET removed == IF hide_duplicates
                 THEN duplicate_sentences(annotations, {})
                 ELSE duplicate_starts(annotations, NoneV, {})
      kept == SelectSeq(annotations, LAMBDA i : i \notin removed)
  IN  [annotations |-> kept,
       unreviewed_annotations_index |->
          [k \in 1..Len(kept) |-> IF a[kept[k]].reviewed THEN 0 ELSE 1],
       total |-> Len(kept),
       removed |-> removed]

\* a variant of the removal loop that pops without marking
mark_removed_unmarked(a, removed) == a

\* the store after format_annotations marked the popped annotations
mark_removed(a, removed) ==
  [i \in AnnIds |-> IF i \in removed THEN [a[i] EXCEPT !.reviewed = TRUE]
                    ELSE a[i]]

\* returned in place of an index when the while loop never exits
Diverges == -1

\* the loop of get_next_annotation_index from loop variable i; the loop is
\* deterministic in i, so running out of fuel means i repeats for ever
RECURSIVE next_index_loop(_, _, _, _)
next_index_loop(unreviewed_annotations, current_index, i, fuel) ==
  IF i = current_index THEN i
  ELSE IF fuel = 0 THEN Diverges
  ELSE LET j == IF i = Len(unreviewed_annotations) THEN 0 ELSE i
       IN  IF unreviewed_annotations[j + 1] = 1 THEN j
           ELSE next_index_loop(unreviewed_annotations, current_index,
                                j + 1, fuel - 1)

\* a variant that scans forward only and never wraps to index 0
get_next_annotation_index_nowrap(unreviewed_annotations, current_index) ==
  LET after == {k \in (current_index + 1)..(Len(unreviewed_annotations) - 1) :
                  unreviewed_annotations[k + 1] = 1}
  IN  IF after = {} THEN current_index
      ELSE CHOOSE k \in after : \A j \in after : k <= j

get_next_annotation_index(unreviewed_annotations, current_index) ==
  next_index_loop(unreviewed_annotations, current_index, current_index + 1,
                  2 * Len(unreviewed_annotations) + 2)

\* a variant of list.index that takes the last occurrence
first_index_last(xs, v) == (CHOOSE k \in 1..Len(xs) :
                              xs[k] = v /\ \A j \in (k + 1)..Len(xs) : xs[j] # v) - 1

\* list.index(1) and list.index(x), zero-based
first_index(xs, v) == (CHOOSE k \in 1..Len(xs) :
                         xs[k] = v /\ \A j \in 1..(k - 1) : xs[j] # v) - 1

contains(xs, v) == \E k \in 1..Len(xs) : xs[k] = v


(* ---------------------------------------------------------------------- *)
(* ops.py: save_adjudications                                              *)
(* ---------------------------------------------------------------------- *)
pop_patient_id(s) == [s EXCEPT !.patient_id = Absent]

current_annotation(s) == s.annotations[s.index + 1]

\* a variant of the test of line 604 that is satisfied one annotation early
no_annotations_left_early(a, patient_id) ==
  Len(get_patient_annotation_ids(a, patient_id)) <= 1

\* the patient has no un-reviewed annotation left (line 604)
no_annotations_left(a, patient_id) ==
  Len(get_patient_annotation_ids(a, patient_id)) = 0

\* the patient has an event date (lines 610 and 623)
has_event_date(a, patient_id) == get_event_date(a, patient_id) # NoneV

\* the cursor moves to the next un-reviewed entry; hang is TRUE, and the
\* session is not saved, when get_next_annotation_index never returns
move_to_next_unreviewed(a, pt, s, saved) ==
  LET n == get_next_annotation_index(s.unreviewed_annotations_index, s.index)
  IN  [a |-> a, pt |-> pt,
       s |-> IF n = Diverges THEN saved ELSE [s EXCEPT !.index = n],
       hang |-> n = Diverges]

\* lines 595-621: the current entry is un-reviewed
adjudicate_unreviewed(a, pt, q, s, u, current_patient_id, saved) ==
  LET a1 == mark_annotation_reviewed(a, current_annotation(s))
      s1 == [s EXCEPT !.unreviewed_annotations_index[s.index + 1] = 0]
  IN  IF no_annotations_left(a1, current_patient_id)
      THEN [a |-> a1,
            pt |-> set_patient_lock_status(
                     mark_patient_reviewed(pt, current_patient_id, u),
                     current_patient_id, FALSE),
            s |-> pop_patient_id(s1), hang |-> FALSE]
      ELSE IF has_event_date(a1, current_patient_id)
      THEN LET pt1 == mark_patient_reviewed(pt, current_patient_id, u)
           IN  [a |-> a1,
                pt |-> IF q.skip_after_event
                       THEN set_patient_lock_status(pt1, current_patient_id, FALSE)
                       ELSE pt1,
                s |-> IF q.skip_after_event THEN pop_patient_id(s1) ELSE s1,
                hang |-> FALSE]
      ELSE move_to_next_unreviewed(a1, pt, s1, saved)

\* a variant of lines 622-631 that clears the bit of the entry it moves to
adjudicate_reviewed_clearing(a, pt, q, s, u, current_patient_id, saved) ==
  LET r == move_to_next_unreviewed(a, pt, s, saved)
  IN  IF r.hang THEN r
      ELSE [r EXCEPT !.s.unreviewed_annotations_index[r.s.index + 1] = 0]

\* lines 622-631: the current entry is reviewed, another one is not
adjudicate_reviewed(a, pt, q, s, u, current_patient_id, saved) ==
  IF has_event_date(a, current_patient_id)
  THEN [a |-> a, pt |-> mark_patient_reviewed(pt, current_patient_id, u),
        s |-> s, hang |-> FALSE]
  ELSE move_to_next_unreviewed(a, pt, s, saved)

\* lines 632-640: no entry is un-reviewed
adjudicate_exhausted(a, pt, q, s, current_patient_id, updated_date) ==
  LET is_last_note == s.index >= s.total_count - 1
  IN  IF is_last_note \/ (updated_date /\ q.skip_after_event)
      THEN [a |-> a,
            pt |-> set_patient_lock_status(pt, current_patient_id, FALSE),
            s |-> s, hang |-> FALSE]
      ELSE [a |-> a, pt |-> pt, s |-> [s EXCEPT !.index = s.index + 1],
            hang |-> FALSE]

\* a variant of _adjudicate_annotation without the release of lines 591-593
adjudicate_annotation_holding(a, pt, q, s, u, updated_date) ==
  LET current_patient_id == s.patient_id
  IN  IF s.unreviewed_annotations_index[s.index + 1] = 1
      THEN adjudicate_unreviewed(a, pt, q, s, u, current_patient_id, s)
      ELSE IF contains(s.unreviewed_annotations_index, 1)
      THEN adjudicate_reviewed(a, pt, q, s, u, current_patient_id, s)
      ELSE adjudicate_exhausted(a, pt, q, s, current_patient_id, updated_date)

\* _adjudicate_annotation on store (a, pt) and session s of user u (the
\* NOTES collection, which it only writes, is left out)
adjudicate_annotation(a, pt, q, s, u, updated_date) ==
  LET current_patient_id == s.patient_id
      early == updated_date /\ q.skip_after_event
      pt0 == IF early THEN set_patient_lock_status(pt, current_patient_id, FALSE)
             ELSE pt
      s0 == IF early THEN pop_patient_id(s) ELSE s
  IN  IF s0.unreviewed_annotations_index[s0.index + 1] = 1
      THEN adjudicate_unreviewed(a, pt0, q, s0, u, current_patient_id, s)
      ELSE IF contains(s0.unreviewed_annotations_index, 1)
      THEN adjudicate_reviewed(a, pt0, q, s0, u, current_patient_id, s)
      ELSE adjudicate_exhausted(a, pt0, q, s0, current_patient_id, updated_date)

max(x, y) == IF x >= y THEN x ELSE y
min(x, y) == IF x <= y THEN x ELSE y

move_to_previous_annotation(s, shift_value) ==
  [s EXCEPT !.index = max(0, s.index - shift_value)]

\* a variant of shift_index_forwards without the min
move_to_next_annotation_unclamped(s, shift_value) ==
  [s EXCEPT !.index = s.index + shift_value]

move_to_next_annotation(s, shift_value) ==
  [s EXCEPT !.index = min(s.total_count - 1, s.index + shift_value)]

\* a variant that also clears the pending bit of the first entry
shift_first_index_clearing(s) ==
  [s EXCEPT !.index = 0, !.unreviewed_annotations_index[1] = 0]

shift_first_index(s) == [s EXCEPT !.index = 0]

shift_last_index(s) == [s EXCEPT !.index = s.total_count - 1]

Actions == {"new_date", "del_date", "comment", "first_anno", "prev_10",
            "prev_1", "next_1", "next_10", "last_anno", "adjudicate"}

\* the action chosen by submit_button, on store and session
do_action(a, pt, q, s, u, action, date_entry, comment) ==
  LET same == [a |-> a, pt |-> pt, s |-> s, hang |-> FALSE]
  IN  CASE action = "new_date" ->
             adjudicate_annotation(
               update_event_date(a, q, s.patient_id, date_entry,
                                 current_annotation(s)),
               pt, q, s, u, TRUE)
        [] action = "del_date" ->
             [same EXCEPT !.a = delete_event_date(a, q, s.patient_id)]
        [] action = "comment" ->
             [same EXCEPT !.pt = add_comment(pt, current_annotation(s),
                                             strip(comment))]
        [] action = "first_anno" -> [same EXCEPT !.s = shift_first_index(s)]
        [] action = "prev_10" -> [same EXCEPT !.s = move_to_previous_annotation(s, 10)]
        [] action = "prev_1" -> [same EXCEPT !.s = move_to_previous_annotation(s, 1)]
        [] action = "next_1" -> [same EXCEPT !.s = move_to_next_annotation(s, 1)]
        [] action = "next_10" -> [same EXCEPT !.s = move_to_next_annotation(s, 10)]
        [] action = "last_anno" -> [same EXCEPT !.s = shift_last_index(s)]
        [] action = "adjudicate" ->
             adjudicate_annotation(a, pt, q, s, u, FALSE)

\* the whole request: the action, then _add_annotation_comment once more on
\* the annotation that was current when the request arrived
save_adjudications(a, pt, q, s, u, action, date_entry, comment) ==
  LET r == do_action(a, pt, q, s, u, action, date_entry, comment)
  IN  IF r.hang THEN r
      ELSE [r EXCEPT !.pt = add_comment(r.pt, current_annotation(s),
                                        strip(comment))]


(* ---------------------------------------------------------------------- *)
(* Initial state: notes ingested and annotated, nobody logged in yet       *)
(* ---------------------------------------------------------------------- *)
NoSession == [patient_id |-> Absent, total_count |-> 0, annotations |-> << >>,
              unreviewed_annotations_index |-> << >>, index |-> 0]

IdleWorker == [pc |-> "idle", job |-> NoneV, ok |-> FALSE]

InitWith(limited, requests, comments) ==
  /\ corpus \in 1..Len(Corpora)
  /\ quota = [limited |-> limited, requests |-> requests,
              comments |-> comments]
  /\ ann = [i \in AnnIds |-> [reviewed |-> FALSE, event_date |-> NoneV,
                              skip |-> FALSE]]
  /\ pat = [p \in Patients |-> [reviewed |-> FALSE, locked |-> FALSE,
                                reviewed_by |-> NoneV, comments |-> << >>]]
  /\ \E h \in BOOLEAN, k \in BOOLEAN :
        query = [hide_duplicates |-> h, skip_after_event |-> k]
  /\ sess = [u \in Users |-> NoSession]
  /\ req = [u \in Users |-> NoneV]
  /\ tasks = [p \in Patients |-> "none"]
  /\ queue = << >>
  /\ retries = [p \in Patients |-> 0]
  /\ toEnqueue = << >>
  /\ wk = [w \in Workers |-> IdleWorker]
  /\ pines = [running |-> TRUE, token |-> TRUE, closes |-> 0, kills |-> 0]
  /\ dispatched = 0
  /\ runs = [p \in Patients |-> 0]

Init == InitWith(FALSE, 0, 0)

\* one request of a reviewer is served
Serve(stored) ==
  /\ quota.limited => quota.requests > 0
  /\ quota.comments >= stored
  /\ quota' = [quota EXCEPT
                 !.requests = IF quota.limited THEN @ - 1 ELSE @,
                 !.comments = @ - stored]

(* ---------------------------------------------------------------------- *)
(* ops.py: adjudicate_records, in two steps: choosing the patient (reads   *)
(* of the lock and review flags), then building the session and locking    *)
(* ---------------------------------------------------------------------- *)
UnknownPatient == 9

\* the response of line 795: the browser is sent to GET /adjudicate_records
\* and has not asked for it yet
Redirected == -2
SearchInputs == Patients \cup {UnknownPatient}

\* GET: lines 742-751 and 778-779
AdjudicateGet(u) ==
  /\ req[u] \in {NoneV, Redirected}
  /\ Serve(0)
  /\ LET sp == sess[u].patient_id
     IN  IF sp \in Patients /\ get_patient_lock_status(pat, sp) = FALSE
         THEN req' = [req EXCEPT ![u] = NoneV]
         ELSE req' = [req EXCEPT ![u] = get_patients_to_annotate(ann, pat)]
  /\ UNCHANGED <<storeVars, sess, jobVars>>

\* POST: lines 752-779
AdjudicatePost(u, search_patient) ==
  /\ req[u] = NoneV
  /\ Serve(0)
  /\ LET sp == sess[u].patient_id
         held == sp \in Patients
         pt1 == IF held THEN set_patient_lock_status(pat, sp, FALSE) ELSE pat
         s1 == IF held THEN pop_patient_id(sess[u]) ELSE sess[u]
         patient_id ==
           IF search_patient \notin Patients THEN NoneV
           ELSE IF get_patient_lock_status(pt1, search_patient) = FALSE
                THEN search_patient
                ELSE NoneV
         chosen == IF patient_id = NoneV
                   THEN get_patients_to_annotate(ann, pt1)
                   ELSE patient_id
     IN  /\ pat' = pt1
         /\ sess' = [sess EXCEPT ![u] = s1]
         /\ req' = [req EXCEPT ![u] = chosen]
  /\ UNCHANGED <<corpus, ann, query, jobVars>>

\* lines 781-826 for the patient chosen by the first step.  When the stored
\* anchor is not in the emitted list, list.index raises after the session
\* keys were assigned; whether the session is then saved depends on how the
\* server handles the error, so both outcomes are allowed.
AdjudicateLoad(u) ==
  /\ req[u] \in Patients
  /\ LET patient_id == req[u]
         raw_annotations == get_all_annotations_for_patient(patient_id)
         res == format_annotations(ann, raw_annotations, query.hide_duplicates)
         a1 == mark_removed(ann, res.removed)
         stored_event_date == get_event_date(a1, patient_id)
         stored_annotation_id == get_event_annotation_id(a1, patient_id)
         loaded == [patient_id |-> patient_id,
                    total_count |-> res.total,
                    annotations |-> res.annotations,
                    unreviewed_annotations_index |-> res.unreviewed_annotations_index,
                    index |-> sess[u].index]
     IN  /\ ann' = a1
         /\ req' = [req EXCEPT ![u] = IF res.total = 0 THEN Redirected
                                       ELSE NoneV]
         /\ IF res.total = 0
            THEN /\ pat' = set_patient_lock_status(pat, patient_id, FALSE)
                 /\ UNCHANGED sess
            ELSE IF stored_event_date # NoneV /\ stored_annotation_id # NoneV
            THEN IF contains(res.annotations, stored_annotation_id)
                 THEN /\ sess' = [sess EXCEPT ![u] =
                                    [loaded EXCEPT !.index =
                                       first_index(res.annotations,
                                                   stored_annotation_id)]]
                      /\ pat' = set_patient_lock_status(pat, patient_id, TRUE)
                 ELSE /\ \E saved \in BOOLEAN :
                           sess' = IF saved THEN [sess EXCEPT ![u] = loaded]
                                   ELSE sess
                      /\ UNCHANGED pat
            ELSE IF ~contains(res.unreviewed_annotations_index, 1)
            THEN /\ sess' = [sess EXCEPT ![u] = [loaded EXCEPT !.index = 0]]
                 /\ pat' = set_patient_lock_status(pat, patient_id, TRUE)
            ELSE /\ sess' = [sess EXCEPT ![u] =
                               [loaded EXCEPT !.index =
                                  first_index(res.unreviewed_annotations_index, 1)]]
                 /\ pat' = set_patient_lock_status(pat, patient_id, TRUE)
  /\ UNCHANGED <<corpus, query, quota, jobVars>>

\* the comment texts a reviewer submits with a request
CommentInputs == {"", " ", " c"}

\* the comments a request stores: none for a blank text, two when the
\* action is itself the comment action
Stored(action, comment) ==
  IF strip(comment) = "" THEN 0 ELSE IF action = "comment" THEN 2 ELSE 1

\* POST /save_adjudications.  Without the session keys (or with an index
\* outside the list) lines 548-549 raise and nothing is changed.
SaveAdjudications(u, action, date_entry, comment) ==
  /\ req[u] = NoneV
  /\ sess[u].patient_id # Absent
  /\ sess[u].index < Len(sess[u].annotations)
  /\ Serve(Stored(action, comment))
  /\ LET r == save_adjudications(ann, pat, query, sess[u], u,
                                 action, date_entry, comment)
     IN  /\ ann' = r.a
         /\ pat' = r.pt
         /\ sess' = [sess EXCEPT ![u] = r.s]
  /\ UNCHANGED <<corpus, query, req, jobVars>>

\* POST /unlock_patient
UnlockCurrentPatient(u) ==
  /\ req[u] = NoneV
  /\ Serve(0)
  /\ sess[u].patient_id \notin {Absent, NoneV}
  /\ pat' = set_patient_lock_status(pat, sess[u].patient_id, FALSE)
  /\ sess' = [sess EXCEPT ![u].patient_id = NoneV]
  /\ UNCHANGED <<corpus, ann, query, req, jobVars>>


(* ---------------------------------------------------------------------- *)
(* ops.py: upload_query and the job dispatcher.  The queue is rq's: a      *)
(* worker takes the head job, runs it, runs the success or failure         *)
(* callback, and after a failure puts the job back while retries are left. *)
(* ---------------------------------------------------------------------- *)
\* Retry(max=3)
RetryMax == 3

\* do_nlp_processing up to the enqueue loop: pt_ids = db.get_patient_ids()
start_dispatch == /\ toEnqueue' = get_patient_ids
                  /\ dispatched' = dispatched + 1

\* POST /upload_query: save_query returns None, so the annotations are
\* kept; the session's patient is popped; the jobs are dispatched
UploadQuery(u, hide_duplicates, skip_after_event) ==
  /\ req[u] = NoneV
  /\ Serve(0)
  /\ dispatched < MaxDispatch
  /\ toEnqueue = << >>
  /\ query' = [hide_duplicates |-> hide_duplicates,
               skip_after_event |-> skip_after_event]
  /\ sess' = [sess EXCEPT ![u] =
                IF @.patient_id # Absent THEN pop_patient_id(@) ELSE @]
  /\ start_dispatch
  /\ UNCHANGED <<corpus, ann, pat, req, tasks, queue, retries, wk, pines, runs>>

\* GET /start_process
StartProcess ==
  /\ dispatched < MaxDispatch
  /\ toEnqueue = << >>
  /\ start_dispatch
  /\ UNCHANGED <<storeVars, sessVars, quota, tasks, queue, retries, wk, pines, runs>>

\* a variant of the enqueue loop that grants one retry more
Enqueue_one_more_retry ==
  /\ toEnqueue # << >>
  /\ LET patient == Head(toEnqueue)
     IN  /\ queue' = Append(queue, patient)
         /\ retries' = [retries EXCEPT ![patient] = RetryMax + 1]
         /\ tasks' = [tasks EXCEPT ![patient] = "in_progress"]
  /\ toEnqueue' = Tail(toEnqueue)
  /\ UNCHANGED <<storeVars, sessVars, quota, wk, pines, dispatched, runs>>

\* one iteration of the enqueue loop: job spacy:<patient>, in progress
Enqueue ==
  /\ toEnqueue # << >>
  /\ LET patient == Head(toEnqueue)
     IN  /\ queue' = Append(queue, patient)
         /\ retries' = [retries EXCEPT ![patient] = RetryMax]
         /\ tasks' = [tasks EXCEPT ![patient] = "in_progress"]
  /\ toEnqueue' = Tail(toEnqueue)
  /\ UNCHANGED <<storeVars, sessVars, quota, wk, pines, dispatched, runs>>

\* a worker takes the job at the head of the queue
WorkerTake(w) ==
  /\ wk[w].pc = "idle"
  /\ queue # << >>
  /\ wk' = [wk EXCEPT ![w] = [pc |-> "running", job |-> Head(queue), ok |-> FALSE]]
  /\ queue' = Tail(queue)
  /\ UNCHANGED <<storeVars, sessVars, quota, tasks, retries, toEnqueue, pines,
                 dispatched, runs>>

\* automatic_nlp_processor returns or raises
WorkerRun(w, ok) ==
  /\ wk[w].pc = "running"
  /\ wk' = [wk EXCEPT ![w].pc = "report", ![w].ok = ok]
  /\ runs' = [runs EXCEPT ![wk[w].job] = @ + 1]
  /\ UNCHANGED <<storeVars, sessVars, quota, tasks, queue, retries, toEnqueue, pines,
                 dispatched>>

report_success(t, job) == [t EXCEPT ![job] = "success"]
report_failure(t, job) == [t EXCEPT ![job] = "failed"]
get_tasks_in_progress(t) == {p \in Patients : t[p] = "in_progress"}

\* callback_job_success / callback_job_failure, first statement
CallbackReport(w) ==
  /\ wk[w].pc = "report"
  /\ tasks' = IF wk[w].ok THEN report_success(tasks, wk[w].job)
              ELSE report_failure(tasks, wk[w].job)
  /\ wk' = [wk EXCEPT ![w].pc = "check"]
  /\ UNCHANGED <<storeVars, sessVars, quota, queue, retries, toEnqueue, pines,
                 dispatched, runs>>

\* api.kill_pines_api, reached through close_pines_connection
kill_pines_api(pn) ==
  IF pn.running /\ pn.token
  THEN [pn EXCEPT !.running = FALSE, !.kills = @ + 1]
  ELSE pn

close_pines_connection(pn) == kill_pines_api([pn EXCEPT !.closes = @ + 1])

\* the rest of the callback, then rq's handle_job_failure: retry or give up
CallbackCheck(w) ==
  /\ wk[w].pc = "check"
  /\ pines' = IF get_tasks_in_progress(tasks) = {} /\ pines.token
              THEN close_pines_connection(pines)
              ELSE pines
  /\ IF ~wk[w].ok /\ retries[wk[w].job] > 0
     THEN /\ retries' = [retries EXCEPT ![wk[w].job] = @ - 1]
          /\ queue' = Append(queue, wk[w].job)
     ELSE UNCHANGED <<retries, queue>>
  /\ wk' = [wk EXCEPT ![w] = IdleWorker]
  /\ UNCHANGED <<storeVars, sessVars, quota, tasks, toEnqueue, dispatched, runs>>

(* ---------------------------------------------------------------------- *)
(* Specifications                                                          *)
(* ---------------------------------------------------------------------- *)
\* one reviewer working alone; no queue worker is running.  Under Spec the
\* comment texts are blank (quota.comments is 0) and nothing is stored.
Next ==
  \/ AdjudicateGet(Reviewer)
  \/ \E p \in SearchInputs : AdjudicatePost(Reviewer, p)
  \/ AdjudicateLoad(Reviewer)
  \/ \E action \in Actions, d \in Dates, c \in CommentInputs :
        SaveAdjudications(Reviewer, action, d, c)
  \/ UnlockCurrentPatient(Reviewer)

Spec == Init /\ [][Next]_vars

\* several reviewers on the three-patient corpus, requests interleaved
InitShared == InitWith(TRUE, MaxRequests, 0) /\ corpus = 2

NextShared ==
  \/ \E u \in Users : AdjudicateGet(u)
  \/ \E u \in Users, p \in SearchInputs : AdjudicatePost(u, p)
  \/ \E u \in Users : AdjudicateLoad(u)
  \/ \E u \in Users, action \in Actions, d \in Dates, c \in CommentInputs :
        SaveAdjudications(u, action, d, c)
  \/ \E u \in Users : UnlockCurrentPatient(u)
  \/ \E u \in Users, h \in BOOLEAN, k \in BOOLEAN : UploadQuery(u, h, k)
  \/ Enqueue

SpecShared == InitShared /\ [][NextShared]_vars

\* one reviewer on the first corpus, whose comment texts are stored
InitComments ==
  /\ InitWith(TRUE, MaxRequests, MaxComments)
  /\ corpus = 1
  /\ query = [hide_duplicates |-> FALSE, skip_after_event |-> FALSE]

SpecComments == InitComments /\ [][Next]_vars

\* the dispatcher's side: dispatch, workers and callbacks
NextJobs ==
  \/ StartProcess
  \/ Enqueue
  \/ \E w \in Workers : WorkerTake(w)
  \/ \E w \in Workers, ok \in BOOLEAN : WorkerRun(w, ok)
  \/ \E w \in Workers : CallbackReport(w)
  \/ \E w \in Workers : CallbackCheck(w)

InitJobs ==
  /\ InitWith(TRUE, 0, 0)
  /\ corpus = 2
  /\ query = [hide_duplicates |-> TRUE, skip_after_event |-> FALSE]

SpecJobs == InitJobs /\ [][NextJobs]_vars

\* the loop of do_nlp_processing runs to its end, and an rq worker goes on
\* taking queued jobs, running them and running their callbacks
JobsFairness ==
  /\ WF_vars(Enqueue)
  /\ \A w \in Workers :
       WF_vars(\/ WorkerTake(w)
               \/ \E ok \in BOOLEAN : WorkerRun(w, ok)
               \/ CallbackReport(w)
               \/ CallbackCheck(w))

SpecJobsFair == SpecJobs /\ JobsFairness

\* GET /start_process requested again after an earlier dispatch
StartProcessAgain ==
  /\ dispatched >= MaxDispatch
  /\ dispatched < MaxDispatch + MaxRedispatch
  /\ toEnqueue = << >>
  /\ start_dispatch
  /\ UNCHANGED <<storeVars, sessVars, quota, tasks, queue, retries, wk, pines, runs>>

\* the dispatcher's side with repeated dispatches and jobs that succeed
NextRedispatch ==
  \/ StartProcess
  \/ StartProcessAgain
  \/ Enqueue
  \/ \E w \in Workers : WorkerTake(w)
  \/ \E w \in Workers : WorkerRun(w, TRUE)
  \/ \E w \in Workers : CallbackReport(w)
  \/ \E w \in Workers : CallbackCheck(w)

SpecRedispatch == InitJobs /\ [][NextRedispatch]_vars

SpecRedispatchFair == SpecRedispatch /\ JobsFairness

\* db.py: remove_all_locked, run when the server shuts down; the sessions
\* are kept by the session store and outlive the server
RemoveAllLocked ==
  /\ pat' = remove_all_locked(pat)
  /\ UNCHANGED <<corpus, ann, query, quota, sessVars, jobVars>>

\* one reviewer on the second corpus, and a server that may shut down
InitSweep == InitWith(TRUE, MaxRequests, 0) /\ corpus = 2

NextSweep == Next \/ RemoveAllLocked

SpecSweep == InitSweep /\ [][NextSweep]_vars

\* one reviewer on the first corpus who may also upload a new query
InitRequery == InitWith(TRUE, MaxRequests, 0) /\ corpus = 1

NextRequery ==
  \/ Next
  \/ \E h \in BOOLEAN, k \in BOOLEAN : UploadQuery(Reviewer, h, k)
  \/ Enqueue

SpecRequery == InitRequery /\ [][NextRequery]_vars

(* ---------------------------------------------------------------------- *)
(* Claims                                                                  *)
(* ---------------------------------------------------------------------- *)
\* the session has a current patient
Holding(u) == sess[u].patient_id \in Patients

\* save_adjudications gets past lines 548-549
CanSave(u) ==
  /\ req[u] = NoneV
  /\ sess[u].patient_id # Absent
  /\ sess[u].index < Len(sess[u].annotations)

\* the request of user u on the current state
Saved(u, action, date_entry) ==
  save_adjudications(ann, pat, query, sess[u], u, action, date_entry, "")

\* un-reviewed, non-negated annotations of a patient in store a
PendingIn(a, p) ==
  {i \in AnnIds : /\ AnnData[i].patient_id = p
                  /\ ~AnnData[i].isNegated
                  /\ ~a[i].reviewed}

\* C1: no two sessions have the same patient as their current patient at
\* the same time.
C1_ExclusiveLock ==
  \A u \in Users, v \in Users :
     (u # v /\ Holding(u)) => sess[u].patient_id # sess[v].patient_id

\* C2: for every patient at most one annotation has a non-null event date.
C2_SingleEventDate ==
  \A p \in Patients : Cardinality(dated(ann, p)) <= 1

\* C3: whatever patient get_patients_to_annotate returns is not reviewed,
\* not locked and has an un-reviewed, non-negated annotation.
C3_NextAvailable ==
  LET p == get_patients_to_annotate(ann, pat)
  IN  p # NoneV => /\ ~pat[p].reviewed
                   /\ ~pat[p].locked
                   /\ PendingIn(ann, p) # {}

AllJobsFinished ==
  /\ dispatched > 0
  /\ toEnqueue = << >>
  /\ queue = << >>
  /\ \A w \in Workers : wk[w].pc = "idle"

\* C4: close_pines_connection is performed exactly once per dispatch: never
\* twice, and once when every job has finished.
C4_CloseExactlyOnce ==
  /\ pines.closes <= 1
  /\ AllJobsFinished => pines.closes = 1

\* C5: every locked patient is the current patient of exactly one session.
C5_LockedHasOwner ==
  \A p \in Patients :
     pat[p].locked => Cardinality({u \in Users : sess[u].patient_id = p}) = 1

C7_RoundTrip ==
  \A u \in Users, d \in Dates :
     (CanSave(u) /\ Holding(u)) =>
        LET r1 == Saved(u, "new_date", d)
        IN  (~r1.hang /\ r1.s.patient_id \in Patients) =>
               LET r2 == save_adjudications(r1.a, r1.pt, query, r1.s, u,
                                            "del_date", d, "")
               IN  /\ r2.s.unreviewed_annotations_index
                        = sess[u].unreviewed_annotations_index
                   /\ \A i \in AnnIds :
                        AnnData[i].patient_id = sess[u].patient_id
                          => r2.a[i].reviewed = ann[i].reviewed

\* C8: with skip_after_event, setting date d marks exactly the entries in
\* notes dated after d as skip with pending bit 0 and their reviewed flag as
\* it was; the other entries, the dated one apart, keep skip, reviewed and bit.
C8_Propagation ==
  \A u \in Users, d \in Dates :
     (CanSave(u) /\ Holding(u) /\ query.skip_after_event) =>
        LET r == Saved(u, "new_date", d)
            s == sess[u]
        IN  \A k \in 1..Len(s.annotations) :
               LET i == s.annotations[k]
               IN  i # current_annotation(s) =>
                     IF AnnData[i].text_date > d
                     THEN /\ r.a[i].skip
                          /\ r.s.unreviewed_annotations_index[k] = 0
                          /\ r.a[i].reviewed = ann[i].reviewed
                     ELSE /\ r.a[i].skip = ann[i].skip
                          /\ r.a[i].reviewed = ann[i].reviewed
                          /\ r.s.unreviewed_annotations_index[k]
                               = s.unreviewed_annotations_index[k]

\* C9: adjudicating while the current entry's pending bit is 0 leaves the
\* pending bit-vector as it was.
C9_AdjudicateReviewedKeepsBits ==
  \A u \in Users :
     (CanSave(u) /\ sess[u].unreviewed_annotations_index[sess[u].index + 1] = 0)
        => Saved(u, "adjudicate", 1).s.unreviewed_annotations_index
             = sess[u].unreviewed_annotations_index

\* C9 witness: a session whose current entry is reviewed while another entry
\* is still pending, where adjudicating moves the cursor to a pending entry.
C9_Witness ==
  \E u \in Users :
     /\ CanSave(u) /\ Holding(u)
     /\ sess[u].unreviewed_annotations_index[sess[u].index + 1] = 0
     /\ contains(sess[u].unreviewed_annotations_index, 1)
     /\ LET r == Saved(u, "adjudicate", 1)
        IN  /\ ~r.hang
            /\ r.s.index # sess[u].index
            /\ r.s.unreviewed_annotations_index[r.s.index + 1] = 1

Clamp(x, lo, hi) == IF x < lo THEN lo ELSE IF x > hi THEN hi ELSE x

\* C10: prev/next by 1 or 10 set the cursor to clamp(cursor + delta, 0,
\* length - 1), first sets it to 0 and last to length - 1.
C10_NavigateClamps ==
  \A u \in Users :
     CanSave(u) =>
        LET i == sess[u].index
            last == Len(sess[u].annotations) - 1
        IN  /\ Saved(u, "prev_10", 1).s.index = Clamp(i - 10, 0, last)
            /\ Saved(u, "prev_1", 1).s.index = Clamp(i - 1, 0, last)
            /\ Saved(u, "next_1", 1).s.index = Clamp(i + 1, 0, last)
            /\ Saved(u, "next_10", 1).s.index = Clamp(i + 10, 0, last)
            /\ Saved(u, "first_anno", 1).s.index = 0
            /\ Saved(u, "last_anno", 1).s.index = last

\* C10 witness: a reviewer moved to the last of several entries, all of them
\* still pending, where next_1 stays and prev_10 goes to the first entry.
C10_Witness ==
  \E u \in Users :
     /\ CanSave(u) /\ Holding(u)
     /\ Len(sess[u].annotations) >= 2
     /\ sess[u].index = Len(sess[u].annotations) - 1
     /\ ~contains(sess[u].unreviewed_annotations_index, 0)
     /\ Saved(u, "next_1", 1).s.index = sess[u].index
     /\ Saved(u, "prev_10", 1).s.index = 0

\* the candidates of patient p as the sequencer receives them
Candidates(p) == get_all_annotations_for_patient(p)

\* the k-th candidate repeats the normalised sentence of an earlier one
SameSentenceEarlier(raw, k) ==
  \E j \in 1..(k - 1) :
     lower_strip(AnnData[raw[j]].sentence) = lower_strip(AnnData[raw[k]].sentence)

\* the k-th candidate repeats the sentence start of an earlier one of its note
SameStartEarlierInNote(raw, k) ==
  \E j \in 1..(k - 1) :
     /\ AnnData[raw[j]].note_id = AnnData[raw[k]].note_id
     /\ AnnData[raw[j]].sentence_start = AnnData[raw[k]].sentence_start

C12_SameNoteDuplicates ==
  /\ \A p \in Patients :
        LET raw == Candidates(p)
            res == format_annotations(ann, raw, FALSE)
        IN  \A k \in 1..Len(raw) :
               (raw[k] \in res.removed) <=> SameStartEarlierInNote(raw, k)
  /\ \A u \in Users :
        (Holding(u) /\ ~query.hide_duplicates) =>
           LET raw == Candidates(sess[u].patient_id)
           IN  \A k \in 1..Len(raw) :
                  contains(sess[u].annotations, raw[k])
                     <=> ~SameStartEarlierInNote(raw, k)

\* C12 witness: a session on a patient with two candidates at the same
\* sentence start of one note lists one of them; the other is marked reviewed.
C12_Witness ==
  /\ ~query.hide_duplicates
  /\ \E u \in Users :
        /\ Holding(u)
        /\ \E i \in AnnIds, j \in AnnIds :
              /\ i # j
              /\ AnnData[i].patient_id = sess[u].patient_id
              /\ AnnData[j].patient_id = sess[u].patient_id
              /\ AnnData[i].note_id = AnnData[j].note_id
              /\ AnnData[i].sentence_start = AnnData[j].sentence_start
              /\ contains(sess[u].annotations, i)
              /\ ~contains(sess[u].annotations, j)
              /\ ann[j].reviewed

\* the candidates of patient p the sequencer suppresses as duplicates
Suppressed(p) ==
  format_annotations(ann, Candidates(p), query.hide_duplicates).removed

Exhausts(u) ==
  /\ req[u] = NoneV /\ req'[u] = NoneV
  /\ sess'[u].annotations = sess[u].annotations
  /\ contains(sess[u].unreviewed_annotations_index, 1)
  /\ ~contains(sess'[u].unreviewed_annotations_index, 1)

\* a step that records an event date for patient p under skip_after_event
RecordsDateWithSkip(p) ==
  /\ query.skip_after_event
  /\ \E i \in AnnIds :
        /\ AnnData[i].patient_id = p
        /\ ann'[i].event_date # NoneV
        /\ ann'[i].event_date # ann[i].event_date

\* C14: when a session completes its patient (sequence exhausted, or event
\* date recorded under skip_after_event) the patient is unlocked, reviewed
\* by the session's user, and the session has no current patient.
C14_CompletedReleases ==
  [][\A u \in Users :
        LET p == sess[u].patient_id
        IN  (p \in Patients /\ (Exhausts(u) \/ RecordsDateWithSkip(p))) =>
               /\ ~pat'[p].locked
               /\ pat'[p].reviewed
               /\ pat'[p].reviewed_by = u
               /\ sess'[u].patient_id \notin Patients]_vars

\* no copy of the job of patient p is waiting, queued or with a worker
AtRest(p) ==
  /\ \A k \in 1..Len(toEnqueue) : toEnqueue[k] # p
  /\ \A k \in 1..Len(queue) : queue[k] # p
  /\ \A w \in Workers : wk[w].pc = "idle" \/ wk[w].job # p

\* a job at rest has a record; a failure record means no retry is left
FailureRecorded ==
  \A p \in Patients :
     (AtRest(p) /\ tasks[p] # "none") =>
        /\ tasks[p] \in {"success", "failed"}
        /\ tasks[p] = "failed" => retries[p] = 0

\* C15, as claimed: a job is executed at most 3 times in total, and a job
\* that failed for good is recorded as failed.
C15_AtMostThreeRuns ==
  /\ \A p \in Patients : runs[p] <= 3
  /\ FailureRecorded

\* C15, amended: a job is executed at most RetryMax + 1 times for each
\* dispatch (once, and once for each retry), and a job that failed for good
\* is recorded as failed with no retry left.
C15_RunsBounded ==
  /\ \A p \in Patients : runs[p] <= dispatched * (RetryMax + 1)
  /\ FailureRecorded

\* C15 witness: a job that failed on its first execution and on every retry
\* is at rest, recorded as failed.
C15_Witness ==
  \E p \in Patients :
     /\ AtRest(p)
     /\ runs[p] = RetryMax + 1
     /\ retries[p] = 0
     /\ tasks[p] = "failed"

\* the copies of the job of patient p that are queued or with a worker
InFlight(p) ==
  Cardinality({k \in 1..Len(queue) : queue[k] = p})
    + Cardinality({w \in Workers : wk[w].pc # "idle" /\ wk[w].job = p})

\* C16: a dispatch enqueues one job per patient, and no patient ever has
\* more than one job in flight, also when dispatches follow one another.
C16_OneJobPerPatient ==
  /\ (dispatched = 1 /\ toEnqueue = << >> /\ \A p \in Patients : runs[p] = 0)
        => \A p \in Patients : InFlight(p) = 1
  /\ \A p \in Patients : InFlight(p) <= 1

\* C17: the shutdown sweep leaves every patient unlocked, and changes no
\* patient's reviewed / reviewed_by fields and no annotation.
C17_SweepUnlocksOnly ==
  [][RemoveAllLocked =>
       /\ \A p \in Patients :
             /\ pat'[p].locked = FALSE
             /\ pat'[p].reviewed = pat[p].reviewed
             /\ pat'[p].reviewed_by = pat[p].reviewed_by
       /\ ann' = ann]_vars

\* the sweep has released the patient a session has just been given and not
\* yet worked on, while an earlier patient keeps its review
C17_Witness ==
  /\ Holding(Reviewer)
  /\ LET s == sess[Reviewer]
     IN  /\ pat[s.patient_id].locked = FALSE
         /\ pat[s.patient_id].reviewed = FALSE
         /\ s.index = 0
         /\ \A i \in 1..Len(s.annotations) :
               /\ s.unreviewed_annotations_index[i] = 1
               /\ ann[s.annotations[i]].reviewed = FALSE
               /\ ann[s.annotations[i]].event_date = NoneV
  /\ \E p \in Patients : pat[p].reviewed /\ pat[p].reviewed_by = Reviewer

\* patient p is locked and is the current patient of a session other than u
LockedByOther(u, p) ==
  /\ p \in Patients
  /\ pat[p].locked
  /\ \E v \in Users : v # u /\ sess[v].patient_id = p

\* patient p can be given to a reviewer: not reviewed and not locked
Available(pt, p) == ~pt[p].reviewed /\ ~pt[p].locked

\* C18: a search for a patient that another session has locked does not
\* give the searched patient to the searching session; the session is given
\* a different patient that is available, or none when no patient is.
C18_SearchLockedGivesOther ==
  [][\A u \in Users, p \in Patients :
        (LockedByOther(u, p) /\ AdjudicatePost(u, p)) =>
           /\ req'[u] # p
           /\ req'[u] # NoneV => Available(pat', req'[u])]_vars

\* C19: adjudicate_records locks a patient, or makes it the current patient
\* of a session, only when the patient is unlocked and not reviewed at that
\* moment, whether it was chosen by next-patient selection or by search.
C19_LockOnlyFreeUnreviewed ==
  [][\A u \in Users, p \in Patients :
        (/\ req[u] = p
         /\ AdjudicateLoad(u)
         /\ \/ pat'[p].locked
            \/ sess'[u] # sess[u] /\ sess'[u].patient_id = p) =>
           Available(pat, p)]_vars

\* the first index with bit 1 met from cur + 1 onwards, going from the last
\* index to 0
CircularNext(bits, cur) ==
  LET n == Len(bits)
      at(d) == (cur + d) % n
      hits == {d \in 1..n : bits[at(d) + 1] = 1}
  IN  at(CHOOSE d \in hits : \A e \in hits : d <= e)

\* the current entry of the session is pending
OnPending(u) ==
  /\ CanSave(u) /\ Holding(u)
  /\ sess[u].unreviewed_annotations_index[sess[u].index + 1] = 1

C21_ScanTerminates ==
  \A u \in Users :
     (CanSave(u) /\ Holding(u)) => ~Saved(u, "adjudicate", 1).hang

\* C22 as stated: adjudicating a pending entry ends the session on the
\* patient exactly when no pending bit remains in the session's sequence
\* after the entry's bit was cleared; otherwise the session stays on the
\* same patient.
C22_CompletedIffNoBits ==
  \A u \in Users :
     OnPending(u) =>
        LET p == sess[u].patient_id
            r == Saved(u, "adjudicate", 1)
        IN  ~r.hang =>
              IF contains(r.s.unreviewed_annotations_index, 1)
              THEN r.s.patient_id = p
              ELSE r.s.patient_id = Absent

C24_ClearReverts ==
  \A u \in Users :
     (CanSave(u) /\ Holding(u) /\ has_event_date(ann, sess[u].patient_id)) =>
        LET s == sess[u]
            p == s.patient_id
            anchor == get_event_annotation_id(ann, p)
            r == Saved(u, "del_date", 1)
        IN  /\ \A i \in AnnIds :
                 AnnData[i].patient_id = p =>
                    /\ r.a[i].event_date = NoneV
                    /\ ann[i].skip => ~r.a[i].skip
            /\ \A k \in 1..Len(s.annotations) :
                 ann[s.annotations[k]].skip =>
                    r.s.unreviewed_annotations_index[k] = 1
            /\ ~r.a[anchor].reviewed

\* (note id, text date, sentence number) of i is not after that of j
KeyLeq(i, j) ==
  LET x == AnnData[i]
      y == AnnData[j]
  IN  \/ x.note_id < y.note_id
      \/ x.note_id = y.note_id /\ x.text_date < y.text_date
      \/ x.note_id = y.note_id /\ x.text_date = y.text_date
           /\ x.sentence_number <= y.sentence_number

\* position of annotation i in sequence xs
PositionIn(xs, i) == CHOOSE k \in 1..Len(xs) : xs[k] = i

\* C25: the sequence of a session is in ascending order of (note id, text
\* date, sentence number), and the entries that survive suppression are in
\* the order they have among the patient's candidates.
C25_SequenceSorted ==
  \A u \in Users :
     LET xs == sess[u].annotations
     IN  /\ \A k \in 1..Len(xs), l \in 1..Len(xs) :
               k < l => xs[k] # xs[l] /\ KeyLeq(xs[k], xs[l])
         /\ Holding(u) =>
               LET raw == Candidates(sess[u].patient_id)
               IN  /\ \A k \in 1..Len(xs) : contains(raw, xs[k])
                   /\ \A k \in 1..Len(xs), l \in 1..Len(xs) :
                         k < l => PositionIn(raw, xs[k]) < PositionIn(raw, xs[l])

\* C25 witness: a session whose sequence is not in insertion order and has
\* lost a candidate to suppression
C25_Witness ==
  \E u \in Users :
     /\ Holding(u)
     /\ Len(sess[u].annotations) >= 2
     /\ sess[u].annotations[1] > sess[u].annotations[2]
     /\ Len(sess[u].annotations) < Len(Candidates(sess[u].patient_id))

\* the request in flight of u loads a patient that has a stored event date
\* and anchor, and a sequence that is not empty
LoadsDated(u) ==
  /\ req[u] # NoneV
  /\ AdjudicateLoad(u)
  /\ has_event_date(ann', req[u])
  /\ format_annotations(ann, Candidates(req[u]), query.hide_duplicates).total > 0

\* the cursor a session starts with when there is no anchor to go to
OrdinaryCursor(bits) == IF contains(bits, 1) THEN first_index(bits, 1) ELSE 0

\* C26: a session started on a patient with a stored event date and anchor
\* has its cursor on the anchor when the anchor is in the emitted sequence;
\* when it is not, the session starts all the same, with the cursor of a
\* patient without anchor.
C26_AnchorOrOrdinary ==
  [][\A u \in Users :
        LoadsDated(u) =>
           LET p == req[u]
               anchor == get_event_annotation_id(ann', p)
               s == sess'[u]
           IN  /\ s.patient_id = p
               /\ pat'[p].locked
               /\ s.index < Len(s.annotations)
               /\ IF contains(s.annotations, anchor)
                  THEN s.annotations[s.index + 1] = anchor
                  ELSE s.index = OrdinaryCursor(s.unreviewed_annotations_index)]_vars

\* the request in flight of u loads a patient without stored event date
\* whose sequence is not empty
LoadsUndated(u) ==
  /\ req[u] # NoneV
  /\ AdjudicateLoad(u)
  /\ ~has_event_date(ann', req[u])
  /\ format_annotations(ann, Candidates(req[u]), query.hide_duplicates).total > 0

\* C27: a session started on a patient without anchor has its cursor on the
\* first pending entry, and on entry 0 when no entry is pending.
C27_StartsAtFirstPending ==
  [][\A u \in Users :
        LoadsUndated(u) =>
           LET s == sess'[u]
               bits == s.unreviewed_annotations_index
           IN  /\ s.patient_id = req[u]
               /\ Len(s.annotations) > 0
               /\ IF \E k \in 1..Len(bits) : bits[k] = 1
                  THEN /\ bits[s.index + 1] = 1
                       /\ \A k \in 1..s.index : bits[k] = 0
                  ELSE s.index = 0]_vars

\* C27 witness: a patient reviewed to the end without event date is opened
\* again: nothing is pending and the cursor is on entry 0
C27_Witness ==
  \E u \in Users :
     /\ Holding(u)
     /\ LET s == sess[u]
            p == s.patient_id
        IN  /\ pat[p].locked /\ pat[p].reviewed
            /\ ~has_event_date(ann, p)
            /\ no_annotations_left(ann, p)
            /\ Len(s.annotations) >= 2
            /\ ~contains(s.unreviewed_annotations_index, 1)
            /\ s.index = 0

\* the number of entries of the sequence patient p would be shown with
SequenceLength(a, p) ==
  format_annotations(a, Candidates(p), query.hide_duplicates).total

\* C28: a patient whose sequence is empty does not become the current
\* patient of a session and is left unlocked; the session is sent on, and the
\* request it is sent to gives it a patient with a sequence that is not
\* empty, or none when no patient is left to review.
C28_EmptySequenceMovesOn ==
  [][\A u \in Users :
        /\ sess'[u].patient_id \in Patients => Len(sess'[u].annotations) > 0
        /\ (req[u] \in Patients /\ SequenceLength(ann, req[u]) = 0
              /\ AdjudicateLoad(u)) =>
              /\ req'[u] = Redirected
              /\ sess'[u].patient_id \notin Patients
              /\ ~pat'[req[u]].locked
        /\ (req[u] = Redirected /\ AdjudicateGet(u)) =>
              \/ /\ req'[u] = NoneV
                 /\ get_patients_to_annotate(ann, pat) = NoneV
              \/ /\ req'[u] \in Patients
                 /\ SequenceLength(ann, req'[u]) > 0]_vars

\* C28 witness: a session was sent on from a patient with an empty sequence
\* while another patient is waiting for review
C28_Witness ==
  \E u \in Users :
     /\ req[u] = Redirected
     /\ sess[u].patient_id \notin Patients
     /\ get_patients_to_annotate(ann, pat) \in Patients
     /\ \E p \in Patients : SequenceLength(ann, p) = 0 /\ ~pat[p].locked

\* a job of the dispatch is still to be enqueued, queued, or with a worker
JobsOutstanding ==
  \/ toEnqueue # << >>
  \/ queue # << >>
  \/ \E w \in Workers : wk[w].pc # "idle"

\* C29: close_pines_connection is never called while a job of the dispatch
\* is still to be enqueued, queued, running or waiting for a retry.
C29_CloseOnlyWhenDone ==
  [][pines'.closes > pines.closes => ~JobsOutstanding']_vars

BlankTexts == {"", " "}

C32_CommentAppendedOnce ==
  \A u \in Users :
     (CanSave(u) /\ Holding(u)) =>
        LET r == save_adjudications(ann, pat, query, sess[u], u, "comment", 1, " c")
            p == sess[u].patient_id
        IN  /\ r.pt = [pat EXCEPT ![p].comments = Append(@, "c")]
            /\ r.a = ann
            /\ r.s = sess[u]

\* the positional moves of the actions table
Navigations == {"first_anno", "prev_10", "prev_1", "next_1", "next_10",
                "last_anno"}

\* C33, as claimed: a navigate request changes the cursor only; the
\* annotations' flags, the pending bit-vector, the patient's lock and review
\* flags and the comment list are after the request what they were before.
C33_NavigateMovesCursorOnly ==
  \A u \in Users, action \in Navigations, c \in CommentInputs :
     (CanSave(u) /\ Holding(u)) =>
        LET r == save_adjudications(ann, pat, query, sess[u], u, action, 1, c)
        IN  /\ ~r.hang
            /\ r.a = ann
            /\ r.pt = pat
            /\ r.s = [sess[u] EXCEPT !.index = r.s.index]

\* C33, amended: a navigate request changes the cursor, and when its comment
\* field is not blank it appends the stripped text once to the comment list
\* of the patient; nothing else changes.
C33_NavigateMovesCursorAndComments ==
  \A u \in Users, action \in Navigations, c \in CommentInputs :
     (CanSave(u) /\ Holding(u)) =>
        LET r == save_adjudications(ann, pat, query, sess[u], u, action, 1, c)
            p == sess[u].patient_id
        IN  /\ ~r.hang
            /\ r.a = ann
            /\ r.pt = IF c \in BlankTexts THEN pat
                      ELSE [pat EXCEPT ![p].comments = Append(@, "c")]
            /\ r.s = [sess[u] EXCEPT !.index = r.s.index]

\* C33 witness: the cursor was moved to the last of three entries, none of
\* which was adjudicated, by a request that carried a comment
C33_Witness ==
  \E u \in Users :
     /\ Holding(u)
     /\ sess[u].total_count = 3
     /\ sess[u].index = 2
     /\ sess[u].unreviewed_annotations_index = <<1, 1, 1>>
     /\ pat[sess[u].patient_id].comments = <<"c">>

\* C34: a session holds one lock at a time: a request for the next patient
\* or a search that takes the session off the patient it holds leaves that
\* patient unlocked, so no patient stays locked for a session that has gone
\* on to another patient.
C34_OneLockPerSession ==
  [][\A u \in Users :
        (/\ Holding(u)
         /\ sess'[u].patient_id # sess[u].patient_id
         /\ AdjudicateLoad(u) \/ \E p \in SearchInputs : AdjudicatePost(u, p))
          => ~pat'[sess[u].patient_id].locked]_vars

\* C35: when more than one annotation of the session's patient holds an
\* event date, a request that sets or clears the event date is refused: it
\* leaves the annotations and the patients as they are.
C35_RefuseOnTwoDates ==
  \A u \in Users, d \in Dates, action \in {"new_date", "del_date"} :
     (/\ CanSave(u) /\ Holding(u)
      /\ Cardinality(dated(ann, sess[u].patient_id)) > 1)
       => LET r == Saved(u, action, d)
          IN  r.a = ann /\ r.pt = pat

\* C36: building a patient's review sequence a second time, with nothing
\* adjudicated in between, gives the id list and the pending bit-vector of
\* the first build and changes no annotation flag; and no step removes an
\* annotation record.
C36_ResumeIdempotent ==
  [][/\ \A p \in Patients :
          LET raw == get_all_annotations_for_patient(p)
              r1 == format_annotations(ann, raw, query.hide_duplicates)
              a1 == mark_removed(ann, r1.removed)
              r2 == format_annotations(a1, raw, query.hide_duplicates)
              a2 == mark_removed(a1, r2.removed)
          IN  /\ r2.annotations = r1.annotations
              /\ r2.unreviewed_annotations_index = r1.unreviewed_annotations_index
              /\ a2 = a1
     /\ DOMAIN ann' = DOMAIN ann]_vars

\* C36 witness: a session holds a sequence from which a duplicate was
\* suppressed and marked reviewed, and one of its entries was adjudicated
C36_Witness ==
  \E u \in Users :
     /\ Holding(u)
     /\ \E i \in AnnIds :
           /\ AnnData[i].patient_id = sess[u].patient_id
           /\ ~contains(sess[u].annotations, i)
           /\ ann[i].reviewed
     /\ sess[u].total_count = 2
     /\ sess[u].unreviewed_annotations_index = <<0, 1>>

\* a request of user u is served
RequestOf(u) ==
  \/ AdjudicateGet(u)
  \/ \E p \in SearchInputs : AdjudicatePost(u, p)
  \/ AdjudicateLoad(u)
  \/ \E action \in Actions, d \in Dates, c \in CommentInputs :
        SaveAdjudications(u, action, d, c)
  \/ UnlockCurrentPatient(u)

\* C37: a request of one session unlocks no patient but the one the session
\* holds, and never the locked patient that another session holds as its
\* current patient.
C37_UnlocksOwnPatientOnly ==
  [][\A u \in Users, p \in Patients :
        (RequestOf(u) /\ pat[p].locked /\ ~pat'[p].locked) =>
           /\ sess[u].patient_id = p
           /\ \A v \in Users \ {u} : sess[v].patient_id # p]_vars

\* the session of user u has no patient locked for it
Released(u) ==
  \/ sess[u].patient_id \notin Patients
  \/ ~pat[sess[u].patient_id].locked

\* C38: once a session has released its patient, by the unlock request, at
\* the end of the sequence or by completing the patient, a save_adjudications
\* request of that session changes no annotation and no patient until the
\* session has locked a patient again.
C38_NoWriteAfterRelease ==
  \A u \in Users, action \in Actions, d \in Dates :
     (CanSave(u) /\ Released(u)) =>
        LET r == Saved(u, action, d)
        IN  r.a = ann /\ r.pt = pat

\* C39: while a session holds a patient, bit i of its pending bit-vector is
\* 1 exactly when the stored annotation at position i is neither reviewed
\* nor skipped.
C39_BitsAgreeWithStore ==
  \A u \in Users :
     Holding(u) =>
        \A k \in 1..Len(sess[u].annotations) :
           LET i == sess[u].annotations[k]
           IN  sess[u].unreviewed_annotations_index[k] = 1
                 <=> (~ann[i].reviewed /\ ~ann[i].skip)

\* C40: in a session that has a current patient the annotation-id list and
\* the pending bit-vector have total_count entries each, total_count is at
\* least 1, and the cursor lies within 0 .. total_count - 1.
C40_CursorInRange ==
  \A u \in Users :
     Holding(u) =>
        /\ sess[u].total_count >= 1
        /\ Len(sess[u].annotations) = sess[u].total_count
        /\ Len(sess[u].unreviewed_annotations_index) = sess[u].total_count
        /\ sess[u].index >= 0
        /\ sess[u].index <= sess[u].total_count - 1

TypeOK ==
  /\ \A u \in Users : sess[u].patient_id \in Patients \cup {NoneV, Absent}
  /\ \A p \in Patients : pat[p].locked \in BOOLEAN


====
